---- MODULE Spec2Model ----
(***************************************************************************)
(* Model of the weather proxy in src/main.go: one Fiber route,             *)
(* GET /weather/:city, served by WeatherService.getWeather as a            *)
(* cache-aside read over Redis (GET / SETEX) and the Visual Crossing API.  *)
(*                                                                         *)
(* Text is modelled as sequences of one-character strings.  The characters *)
(* U+03A3, U+03C3 and U+03C2 (capital, small and final sigma) are written  *)
(* as the atoms "U+03A3", "U+03C3" and "U+03C2".                           *)
(***************************************************************************)
EXTENDS Integers, Sequences, FiniteSets, TLC

(***************************************************************************)
(* Text helpers.                                                           *)
(***************************************************************************)

\* The characters of JSON texts the model uses, in byte order.
ByteOrder ==
    << " ", "\"", ",", "0", "1", "2", "7", ":", "a", "b", "e", "f", "l", "n",
       "r", "s", "t", "u", "x", "{", "}" >>

Ord(ch) == CHOOSE i \in 1..Len(ByteOrder) : ByteOrder[i] = ch

Digits == << "0", "1", "2", "3", "4", "5", "6", "7", "8", "9" >>

IsDigit(ch) == \E i \in 1..10 : Digits[i] = ch

DigitVal(ch) == (CHOOSE i \in 1..10 : Digits[i] = ch) - 1

HasPrefix(s, pre) == Len(s) >= Len(pre) /\ SubSeq(s, 1, Len(pre)) = pre

Drop(s, n) == SubSeq(s, n + 1, Len(s))

\* Byte-wise string order, as sort.Strings uses for the keys of a map.
RECURSIVE StrLess(_, _)
StrLess(a, b) ==
    IF a = <<>> THEN b # <<>>
    ELSE IF b = <<>> THEN FALSE
    ELSE IF Head(a) = Head(b) THEN StrLess(Tail(a), Tail(b))
    ELSE Ord(Head(a)) < Ord(Head(b))

(***************************************************************************)
(* JSON values as encoding/json decodes them into interface{}:             *)
(* nil, bool, float64 (natural numbers here), string, map[string]any.      *)
(***************************************************************************)

Null == [t |-> "null", v |-> <<>>]

Bool(b) == [t |-> "bool", v |-> b]

Num(n) == [t |-> "num", v |-> n]

Str(s) == [t |-> "str", v |-> s]

Obj(m) == [t |-> "obj", v |-> m]

EmptyMap == [k \in {} |-> Null]

\* m[key] = val, a later duplicate key replacing the earlier one.
MapSet(m, key, val) ==
    [k \in DOMAIN m \cup {key} |-> IF k = key THEN val ELSE m[k]]

Fail == [ok |-> FALSE, val |-> Null, rest |-> <<>>]

Ok(val, rest) == [ok |-> TRUE, val |-> val, rest |-> rest]

\* isSpace of the scanner; the model's texts use the space character only.
RECURSIVE SkipSpace(_)
SkipSpace(s) ==
    IF s # <<>> /\ Head(s) = " " THEN SkipSpace(Tail(s)) ELSE s

\* The digits of a number after its first digit.
RECURSIVE ScanDigits(_, _)
ScanDigits(s, acc) ==
    IF s # <<>> /\ IsDigit(Head(s))
    THEN ScanDigits(Tail(s), acc * 10 + DigitVal(Head(s)))
    ELSE Ok(Num(acc), s)

\* A number: "0", or a non-zero digit followed by digits.
ScanNumber(s) ==
    IF Head(s) = "0" THEN Ok(Num(0), Tail(s))
    ELSE ScanDigits(Tail(s), DigitVal(Head(s)))

\* A string after its opening quote, up to the closing quote.
RECURSIVE ScanString(_, _)
ScanString(s, acc) ==
    IF s = <<>> THEN Fail
    ELSE IF Head(s) = "\"" THEN Ok(Str(acc), Tail(s))
    ELSE ScanString(Tail(s), Append(acc, Head(s)))

RECURSIVE ScanValue(_)
RECURSIVE ScanMembers(_, _)

\* The members of an object after "{" or ",": "key" : value, then "," or "}".
ScanMembers(s, m) ==
    LET s1 == SkipSpace(s) IN
    IF s1 = <<>> \/ Head(s1) # "\"" THEN Fail
    ELSE LET k == ScanString(Tail(s1), <<>>) IN
    IF ~k.ok THEN Fail
    ELSE LET s2 == SkipSpace(k.rest) IN
    IF s2 = <<>> \/ Head(s2) # ":" THEN Fail
    ELSE LET val == ScanValue(Tail(s2)) IN
    IF ~val.ok THEN Fail
    ELSE LET s3 == SkipSpace(val.rest)
             m1 == MapSet(m, k.val.v, val.val) IN
    IF s3 = <<>> THEN Fail
    ELSE IF Head(s3) = "}" THEN Ok(Obj(m1), Tail(s3))
    ELSE IF Head(s3) = "," THEN ScanMembers(Tail(s3), m1)
    ELSE Fail

\* One JSON value at the front of s, after leading space; rest is what follows.
ScanValue(s) ==
    LET s1 == SkipSpace(s) IN
    IF s1 = <<>> THEN Fail
    ELSE IF HasPrefix(s1, <<"n", "u", "l", "l">>) THEN Ok(Null, Drop(s1, 4))
    ELSE IF HasPrefix(s1, <<"t", "r", "u", "e">>) THEN Ok(Bool(TRUE), Drop(s1, 4))
    ELSE IF HasPrefix(s1, <<"f", "a", "l", "s", "e">>)
         THEN Ok(Bool(FALSE), Drop(s1, 5))
    ELSE IF IsDigit(Head(s1)) THEN ScanNumber(s1)
    ELSE IF Head(s1) = "\"" THEN ScanString(Tail(s1), <<>>)
    ELSE IF Head(s1) = "{"
         THEN LET s2 == SkipSpace(Tail(s1)) IN
              IF s2 # <<>> /\ Head(s2) = "}" THEN Ok(Obj(EmptyMap), Tail(s2))
              ELSE ScanMembers(Tail(s1), EmptyMap)
    ELSE Fail

\* strconv-style decimal digits of a natural number.
RECURSIVE FormatNat(_)
FormatNat(n) ==
    IF n < 10 THEN << Digits[n + 1] >>
    ELSE FormatNat(n \div 10) \o << Digits[(n % 10) + 1] >>

Quote(s) == << "\"" >> \o s \o << "\"" >>

MinKey(keys) == CHOOSE k \in keys : \A o \in keys : o = k \/ StrLess(k, o)

RECURSIVE Marshal(_)
RECURSIVE MarshalMembers(_, _)

\* The members of map m for the keys left, in sorted key order.
MarshalMembers(m, keys) ==
    IF keys = {} THEN <<>>
    ELSE LET k == MinKey(keys)
             one == Quote(k) \o << ":" >> \o Marshal(m[k]) IN
         IF keys = {k} THEN one
         ELSE one \o << "," >> \o MarshalMembers(m, keys \ {k})

\* Marshal with numbers written as strings (the ",string" option).
MarshalNumbersAsStrings(val) ==
    CASE val.t = "null" -> << "n", "u", "l", "l" >>
      [] val.t = "bool" -> IF val.v THEN << "t", "r", "u", "e" >>
                           ELSE << "f", "a", "l", "s", "e" >>
      [] val.t = "num" -> Quote(FormatNat(val.v))
      [] val.t = "str" -> Quote(val.v)
      [] val.t = "obj" ->
            << "{" >> \o MarshalMembers(val.v, DOMAIN val.v) \o << "}" >>

\* json.Marshal(v) for a decoded value: compact, map keys sorted.
Marshal(val) ==
    CASE val.t = "null" -> << "n", "u", "l", "l" >>
      [] val.t = "bool" -> IF val.v THEN << "t", "r", "u", "e" >>
                           ELSE << "f", "a", "l", "s", "e" >>
      [] val.t = "num" -> FormatNat(val.v)
      [] val.t = "str" -> Quote(val.v)
      [] val.t = "obj" ->
            << "{" >> \o MarshalMembers(val.v, DOMAIN val.v) \o << "}" >>

(***************************************************************************)
(* Bounds of the model.                                                    *)
(***************************************************************************)

\* Requests the server accepts in one run.
MaxRequests == 2

\* The requests served at the same time: two handler slots.
Procs == { 1, 2 }

(***************************************************************************)
(* Program constants.                                                      *)
(***************************************************************************)

\* http.StatusOK
StatusOK == 200

\* fiber.StatusInternalServerError
StatusInternalServerError == 500

\* Expiration counted in milliseconds where the store counts seconds.
ExpirationMillis == 12 * 60 * 60 * 1000

\* time.Duration(12*60*60)*time.Second, in seconds.
Expiration == 12 * 60 * 60

(***************************************************************************)
(* Inputs: the cities requested and what the upstream may answer.          *)
(***************************************************************************)

Cities == { << "U+03A3" >>, << "U+03C3" >>, << "U+03C2" >> }

BodyTwo ==
    << "{", "\"", "b", "\"", ":", "1", ",", " ", "\"", "a", "\"", ":", "2", "}" >>

BodyTrailing == << "7", " ", "x" >>

BodyTruncated == << "{", "\"", "t", "\"" >>

Bodies == { BodyTwo, BodyTrailing, BodyTruncated }

\* The JSON texts of a run: the bodies, what is stored for them, and the
\* empty text.
Texts ==
    Bodies
    \cup { Marshal(ScanValue(b).val) : b \in { x \in Bodies : ScanValue(x).ok } }
    \cup { <<>> }

\* ScanValue over the texts of a run, computed once.
Scanned == [text \in Texts |-> ScanValue(text)]

\* json.NewDecoder(body).Decode(&v): reads the first value of the stream and
\* stops there; what follows that value is never looked at.
Decode(body) ==
    LET r == Scanned[body] IN [err |-> ~r.ok, val |-> r.val]

\* json.Unmarshal(data, &v): the whole text must be one value (checkValid);
\* on an error v is left as it was.
Unmarshal(data, v) ==
    LET r == Scanned[data] IN
    IF r.ok /\ SkipSpace(r.rest) = <<>>
    THEN [err |-> FALSE, val |-> r.val]
    ELSE [err |-> TRUE, val |-> v]

\* What http.Get returns: an error with its detail, or a response with a
\* status and a body.
NetErrors == { "no such host", "connection reset" }

Unreachable ==
    { [failed |-> TRUE, detail |-> d, StatusCode |-> 0, Body |-> <<>>] :
        d \in NetErrors }

HttpResponse(status, body) ==
    [failed |-> FALSE, detail |-> "", StatusCode |-> status, Body |-> body]

HttpResults ==
    Unreachable
    \cup { HttpResponse(200, b) : b \in Bodies }
    \cup { HttpResponse(404, b) : b \in { BodyTwo, BodyTruncated } }
    \cup { HttpResponse(201, b) : b \in { BodyTwo, BodyTruncated } }

\* The instants the clock visits: the start, and the last second before and
\* the second of the expiration of an entry written at the start.
Times == { 0, Expiration - 1, Expiration }

(***************************************************************************)
(* unicode.ToLower / strings.ToLower over the characters of Cities.        *)
(***************************************************************************)

LowerRune(ch) ==
    CASE ch = "U+03A3" -> "U+03C3"
      [] OTHER -> ch

ToLower(s) == [i \in 1..Len(s) |-> LowerRune(s[i])]

\* CacheKey with the city as given.
CacheKeyVerbatim(c) == << "w", "e", "a", "t", "h", "e", "r", ":" >> \o c

\* cacheKey := fmt.Sprintf("weather:%s", strings.ToLower(city))
CacheKey(c) == << "w", "e", "a", "t", "h", "e", "r", ":" >> \o ToLower(c)

Keys == { CacheKey(c) : c \in Cities }

(***************************************************************************)
(* The Redis store: each key holds nothing, or a value with the time it    *)
(* was written and its time to live.  GET finds an entry until its time to *)
(* live has elapsed.                                                       *)
(***************************************************************************)

NoEntry == [val |-> <<>>, written |-> -1, ttl |-> 0]

IsLive(e, t) == e # NoEntry /\ t < e.written + e.ttl

\* The errors of a store that cannot be reached, by their detail.
StoreErrors == { "connection refused", "i/o timeout" }

\* redisClient.Get(ctx, key).Result(): (value, nil), ("", redis.Nil), or
\* ("", err) when the store fails with failure; "nil" is no failure.
GetResult(e, t, failure) ==
    IF failure \in StoreErrors THEN [val |-> <<>>, err |-> failure]
    ELSE IF IsLive(e, t) THEN [val |-> e.val, err |-> "nil"]
    ELSE [val |-> <<>>, err |-> "redis.Nil"]

\* redisClient.SetEx(ctx, key, value, expiration), applied at time t.
SetExEntry(value, expiration, t) ==
    [val |-> value, written |-> t, ttl |-> expiration]

(***************************************************************************)
(* Responses.  c.JSON(v) is recorded as the value v it is given;           *)
(* fiber.Map{"error": msg} is recorded with its message.                   *)
(***************************************************************************)

ErrorMap(msg) == [t |-> "fiber.Map", v |-> msg]

Response(status, v) == [status |-> status, body |-> v]

NoResponse == Response(0, Null)

(***************************************************************************)
(* The environment main starts in: whether godotenv.Load finds the .env    *)
(* file, which of the variables main reads are set, whether the store      *)
(* answers the PING, and whether app.Listen can bind the port it is given. *)
(***************************************************************************)

Environment(file, key, host, port, password, ping, listenPort, listen) ==
    [ file |-> file, WEATHER_API_KEY |-> key, REDIS_HOST |-> host,
      REDIS_PORT |-> port, REDIS_PASSWORD |-> password, ping |-> ping,
      PORT |-> listenPort, listen |-> listen ]

\* Everything in place.
FullEnv == Environment(TRUE, TRUE, TRUE, TRUE, TRUE, TRUE, TRUE, TRUE)

\* Everything in place, or one thing missing.
Envs ==
    { FullEnv,
      Environment(FALSE, TRUE, TRUE, TRUE, TRUE, TRUE, TRUE, TRUE),
      Environment(TRUE, FALSE, TRUE, TRUE, TRUE, TRUE, TRUE, TRUE),
      Environment(TRUE, TRUE, FALSE, TRUE, TRUE, TRUE, TRUE, TRUE),
      Environment(TRUE, TRUE, TRUE, FALSE, TRUE, TRUE, TRUE, TRUE),
      Environment(TRUE, TRUE, TRUE, TRUE, FALSE, TRUE, TRUE, TRUE),
      Environment(TRUE, TRUE, TRUE, TRUE, TRUE, FALSE, TRUE, TRUE),
      Environment(TRUE, TRUE, TRUE, TRUE, TRUE, TRUE, FALSE, TRUE),
      Environment(TRUE, TRUE, TRUE, TRUE, TRUE, TRUE, TRUE, FALSE) }

\* Config as main fills it: os.Getenv gives "" for a variable that is not
\* set; the value of one that is set is written as its name.
Getenv(e, name) == IF e[name] THEN name ELSE ""

LoadConfig(e) ==
    [ WeatherAPIKey |-> Getenv(e, "WEATHER_API_KEY"),
      RedisHost |-> Getenv(e, "REDIS_HOST"),
      RedisPort |-> Getenv(e, "REDIS_PORT"),
      RedisPassword |-> Getenv(e, "REDIS_PASSWORD") ]

NoConfig ==
    [ WeatherAPIKey |-> "", RedisHost |-> "", RedisPort |-> "",
      RedisPassword |-> "" ]

\* Lines 73-76: the port to listen on, 3000 when PORT is not set.
ListenPort(e) == IF Getenv(e, "PORT") = "" THEN "3000" ELSE Getenv(e, "PORT")

(***************************************************************************)
(* State.  The store and the clock are shared; the rest are the locals of  *)
(* getWeather for each request being served, named as in the source.       *)
(***************************************************************************)

VARIABLES
    env,          \* the environment of the process
    phase,        \* where main stands: "boot", "ping", "registered",
                  \* "serving", or "exited" after log.Fatal
    config,       \* service.config
    port,         \* the port given to app.Listen
    cache,        \* the Redis store: key -> entry
    now,          \* the clock, in seconds
    accepted,     \* requests accepted so far
    pc,           \* where each request stands
    city,         \* c.Params("city")
    cacheKey,     \* the key derived from city
    cachedData,   \* what the GET returned
    err,          \* the error of the GET
    resp,         \* what http.Get returned
    weatherData,  \* the decoded payload
    setErr,       \* the error of the SETEX
    response,     \* the response sent: status and body
    logs,         \* what the request logged
    nGet,         \* GETs the request issued
    nHttp,        \* upstream calls the request issued
    nSetEx        \* SETEXs the request issued

vars ==
    << env, phase, config, port, cache, now, accepted, pc, city, cacheKey, cachedData, err, resp,
       weatherData, setErr, response, logs, nGet, nHttp, nSetEx >>

store == << cache, now >>

process == << env, phase, config, port >>

NoResult == [failed |-> FALSE, detail |-> "", StatusCode |-> 0, Body |-> <<>>]

\* The process as it is started, before main has run.
Started ==
    /\ phase = "boot"
    /\ config = NoConfig
    /\ port = ""
    /\ now = 0
    /\ accepted = 0
    /\ pc = [p \in Procs |-> "idle"]
    /\ city = [p \in Procs |-> <<>>]
    /\ cacheKey = [p \in Procs |-> <<>>]
    /\ cachedData = [p \in Procs |-> <<>>]
    /\ err = [p \in Procs |-> "nil"]
    /\ resp = [p \in Procs |-> NoResult]
    /\ weatherData = [p \in Procs |-> Null]
    /\ setErr = [p \in Procs |-> "nil"]
    /\ response = [p \in Procs |-> NoResponse]
    /\ logs = [p \in Procs |-> <<>>]
    /\ nGet = [p \in Procs |-> 0]
    /\ nHttp = [p \in Procs |-> 0]
    /\ nSetEx = [p \in Procs |-> 0]

EmptyStore == [k \in Keys |-> NoEntry]

\* Stores in which another writer has left, at time 0, a text that is not
\* one JSON value under a key of the service.
ForeignStores ==
    { [EmptyStore EXCEPT ![CacheKey(<< "U+03A3" >>)] =
         SetExEntry(text, Expiration, 0)] :
        text \in { BodyTruncated, BodyTrailing } }

Init == env = FullEnv /\ cache = EmptyStore /\ Started

InitAnyEnv == env \in Envs /\ cache = EmptyStore /\ Started

InitForeignEntry == env = FullEnv /\ cache \in ForeignStores /\ Started

(***************************************************************************)
(* getWeather, cut where it waits: the GET, http.Get, the read of the body  *)
(* in Decode, and the SETEX.  Each operator below is the code that runs    *)
(* from the return of one of them to the start of the next, or to the      *)
(* response.                                                               *)
(***************************************************************************)

\* AfterGet without the return of line 91: a hit is logged and the request
\* goes on to the upstream call.
AfterGetFallsThrough(r) ==
    [ pc |-> "http", weatherData |-> Null, response |-> NoResponse,
      logs |-> IF r.err = "nil" THEN << "Serving from cache" >>
               ELSE IF r.err # "redis.Nil" THEN << "Redis error" >> ELSE <<>> ]

\* AfterGet with a store error answered as a failure of the request.
AfterGetFailsOnStoreError(r) ==
    IF r.err = "nil"
    THEN LET data == Unmarshal(r.val, Null).val IN
         [ pc |-> "done", weatherData |-> data,
           response |-> Response(StatusOK, data),
           logs |-> << "Serving from cache" >> ]
    ELSE IF r.err # "redis.Nil"
    THEN [ pc |-> "done", weatherData |-> Null,
           response |-> Response(StatusInternalServerError,
                                 ErrorMap("Redis error")),
           logs |-> << "Redis error" >> ]
    ELSE [ pc |-> "http", weatherData |-> Null, response |-> NoResponse,
           logs |-> <<>> ]

\* AfterGet with a stored text that does not deserialize treated as a miss.
AfterGetCorruptIsMiss(r) ==
    IF r.err = "nil" /\ ~Unmarshal(r.val, Null).err
    THEN LET data == Unmarshal(r.val, Null).val IN
         [ pc |-> "done", weatherData |-> data,
           response |-> Response(StatusOK, data),
           logs |-> << "Serving from cache" >> ]
    ELSE [ pc |-> "http", weatherData |-> Null, response |-> NoResponse,
           logs |-> IF r.err \notin { "nil", "redis.Nil" }
                    THEN << "Redis error" >> ELSE <<>> ]

\* Lines 87-99, after the GET returned r: a hit answers from the cache, any
\* error goes on to the upstream call.
AfterGet(r) ==
    IF r.err = "nil"
    THEN LET data == Unmarshal(r.val, Null).val IN
         [ pc |-> "done", weatherData |-> data,
           response |-> Response(StatusOK, data),
           logs |-> << "Serving from cache" >> ]
    ELSE [ pc |-> "http", weatherData |-> Null, response |-> NoResponse,
           logs |-> IF r.err # "redis.Nil" THEN << "Redis error" >> ELSE <<>> ]

\* FetchFailed with the status of a gateway error.
FetchFailedBadGateway ==
    Response(502, ErrorMap("Failed to fetch weather data"))

\* Line 101: c.Status(500).JSON(fiber.Map{"error": ...}).
FetchFailed ==
    Response(StatusInternalServerError, ErrorMap("Failed to fetch weather data"))

\* Rejected with the upstream status replaced by 500.
RejectedAs500(r) ==
    Response(StatusInternalServerError, ErrorMap("Invalid city or API error"))

\* Rejected with the body of the upstream passed on as the message.
RejectedEchoesBody(r) == Response(r.StatusCode, ErrorMap(r.Body))

\* Line 106: c.Status(resp.StatusCode).JSON(fiber.Map{"error": ...}).
Rejected(r) == Response(r.StatusCode, ErrorMap("Invalid city or API error"))

\* Line 113: c.Status(500).JSON(fiber.Map{"error": ...}).
ParseFailed ==
    Response(StatusInternalServerError, ErrorMap("Failed to parse weather data"))

\* AfterHttp with the upstream call issued again when it could not be made.
AfterHttpRetries(r) ==
    IF r.failed
    THEN [ pc |-> "http", response |-> NoResponse ]
    ELSE IF r.StatusCode # StatusOK
    THEN [ pc |-> "done", response |-> Rejected(r) ]
    ELSE [ pc |-> "decode", response |-> NoResponse ]

\* Lines 100-111, after http.Get returned r: the error responses of lines
\* 101 and 106, or on to reading the body.
AfterHttp(r) ==
    IF r.failed
    THEN [ pc |-> "done", response |-> FetchFailed ]
    ELSE IF r.StatusCode # StatusOK
    THEN [ pc |-> "done", response |-> Rejected(r) ]
    ELSE [ pc |-> "decode", response |-> NoResponse ]

\* Lines 111-121, after Decode returned d: the error response of line 113,
\* or the decoded payload on its way to the store.
AfterDecode(d) ==
    IF d.err
    THEN [ pc |-> "done", weatherData |-> Null, response |-> ParseFailed ]
    ELSE [ pc |-> "setex", weatherData |-> d.val, response |-> NoResponse ]

\* AfterSetEx with a failed write answered as a failure of the request.
AfterSetExSurfacesError(e, data) ==
    IF e # "nil"
    THEN [ pc |-> "done",
           response |-> Response(StatusInternalServerError,
                                 ErrorMap("Failed to cache weather data")),
           logs |-> << "Failed to cache weather data" >> ]
    ELSE [ pc |-> "done", response |-> Response(StatusOK, data),
           logs |-> << "Serving from API" >> ]

\* AfterSetEx with the payload sent only once the write has gone through: a
\* failed write ends the request without a response.
AfterSetExRespondsOnlyWhenWritten(e, data) ==
    IF e # "nil"
    THEN [ pc |-> "done", response |-> NoResponse,
           logs |-> << "Failed to cache weather data" >> ]
    ELSE [ pc |-> "done", response |-> Response(StatusOK, data),
           logs |-> << "Serving from API" >> ]

\* Lines 122-128, after the SETEX returned e: the payload is sent whatever
\* e is.
AfterSetEx(e, data) ==
    [ pc |-> "done", response |-> Response(StatusOK, data),
      logs |-> (IF e # "nil" THEN << "Failed to cache weather data" >> ELSE <<>>)
               \o << "Serving from API" >> ]

(***************************************************************************)
(* Actions.                                                                *)
(***************************************************************************)

\* main, cut at its blocking calls.  Lines 33-56: log.Fatal when
\* godotenv.Load fails; otherwise the configuration is read as it is, the
\* client is made and the PING is issued.
MainLoad ==
    /\ phase = "boot"
    /\ IF ~env.file
       THEN phase' = "exited" /\ config' = config
       ELSE phase' = "ping" /\ config' = LoadConfig(env)
    /\ UNCHANGED << env, port, store, accepted, pc, city, cacheKey, cachedData,
                    err, resp, weatherData, setErr, response, logs, nGet,
                    nHttp, nSetEx >>

\* The PING returns (line 56).  Lines 57-77: log.Fatal when it failed;
\* otherwise the route is registered and app.Listen is called with PORT, or
\* with 3000.
MainPing ==
    /\ phase = "ping"
    /\ IF ~env.ping
       THEN phase' = "exited" /\ port' = port
       ELSE phase' = "registered" /\ port' = ListenPort(env)
    /\ UNCHANGED << env, config, store, accepted, pc, city, cacheKey,
                    cachedData, err, resp, weatherData, setErr, response, logs,
                    nGet, nHttp, nSetEx >>

\* app.Listen (line 77) binds the port and serves, or returns an error and
\* log.Fatal ends the process.
MainListen ==
    /\ phase = "registered"
    /\ phase' = IF env.listen THEN "serving" ELSE "exited"
    /\ UNCHANGED << env, config, port, store, accepted, pc, city, cacheKey,
                    cachedData, err, resp, weatherData, setErr, response, logs,
                    nGet, nHttp, nSetEx >>

\* A request for city c arrives (lines 80-86) and takes the first free slot:
\* the key is derived and the GET is issued.
Request(p, c) ==
    /\ phase = "serving"
    /\ pc[p] \in { "idle", "done" }
    /\ \A q \in Procs : q < p => pc[q] \notin { "idle", "done" }
    /\ accepted < MaxRequests
    /\ accepted' = accepted + 1
    /\ pc' = [pc EXCEPT ![p] = "get"]
    /\ city' = [city EXCEPT ![p] = c]
    /\ cacheKey' = [cacheKey EXCEPT ![p] = CacheKey(c)]
    /\ cachedData' = [cachedData EXCEPT ![p] = <<>>]
    /\ err' = [err EXCEPT ![p] = "nil"]
    /\ resp' = [resp EXCEPT ![p] = NoResult]
    /\ weatherData' = [weatherData EXCEPT ![p] = Null]
    /\ setErr' = [setErr EXCEPT ![p] = "nil"]
    /\ response' = [response EXCEPT ![p] = NoResponse]
    /\ logs' = [logs EXCEPT ![p] = <<>>]
    /\ nGet' = [nGet EXCEPT ![p] = 1]
    /\ nHttp' = [nHttp EXCEPT ![p] = 0]
    /\ nSetEx' = [nSetEx EXCEPT ![p] = 0]
    /\ UNCHANGED << store, process >>

\* RedisGet as a read that restarts the expiry of the entry it finds (GETEX).
RedisGetTouches(p) ==
    /\ pc[p] = "get"
    /\ \E failure \in { "nil" } \cup StoreErrors :
         LET r == GetResult(cache[cacheKey[p]], now, failure)
             a == AfterGet(r)
         IN /\ cachedData' = [cachedData EXCEPT ![p] = r.val]
            /\ err' = [err EXCEPT ![p] = r.err]
            /\ pc' = [pc EXCEPT ![p] = a.pc]
            /\ weatherData' = [weatherData EXCEPT ![p] = a.weatherData]
            /\ response' = [response EXCEPT ![p] = a.response]
            /\ logs' = [logs EXCEPT ![p] = a.logs]
            /\ nGet' = [nGet EXCEPT ![p] = @ + IF a.pc = "get" THEN 1 ELSE 0]
            /\ nHttp' = [nHttp EXCEPT ![p] = @ + IF a.pc = "http" THEN 1 ELSE 0]
            /\ cache' =
                 IF r.err = "nil"
                 THEN [cache EXCEPT ![cacheKey[p]] =
                         SetExEntry(r.val, Expiration, now)]
                 ELSE cache
    /\ UNCHANGED << process, now, accepted, city, cacheKey, resp, setErr,
                    nSetEx >>

\* The GET returns (line 86) and the request runs on to its response or to
\* the upstream call (lines 87-99).
RedisGet(p) ==
    /\ pc[p] = "get"
    /\ \E failure \in { "nil" } \cup StoreErrors :
         LET r == GetResult(cache[cacheKey[p]], now, failure)
             a == AfterGet(r)
         IN /\ cachedData' = [cachedData EXCEPT ![p] = r.val]
            /\ err' = [err EXCEPT ![p] = r.err]
            /\ pc' = [pc EXCEPT ![p] = a.pc]
            /\ weatherData' = [weatherData EXCEPT ![p] = a.weatherData]
            /\ response' = [response EXCEPT ![p] = a.response]
            /\ logs' = [logs EXCEPT ![p] = a.logs]
            /\ nGet' = [nGet EXCEPT ![p] = @ + IF a.pc = "get" THEN 1 ELSE 0]
            /\ nHttp' = [nHttp EXCEPT ![p] = @ + IF a.pc = "http" THEN 1 ELSE 0]
    /\ UNCHANGED << process, store, accepted, city, cacheKey, resp, setErr, nSetEx >>

\* http.Get returns r (line 99): an error, or the status and headers of a
\* response whose body, r.Body, is still to be read.  The request runs on to
\* an error response or to Decode (lines 100-111).
HttpGet(p, r) ==
    /\ pc[p] = "http"
    /\ LET a == AfterHttp(r)
       IN /\ resp' = [resp EXCEPT ![p] = r]
          /\ pc' = [pc EXCEPT ![p] = a.pc]
          /\ response' = [response EXCEPT ![p] = a.response]
          /\ nHttp' = [nHttp EXCEPT ![p] = @ + IF a.pc = "http" THEN 1 ELSE 0]
    /\ UNCHANGED << process, store, accepted, city, cacheKey, cachedData, err,
                    weatherData, setErr, logs, nGet, nSetEx >>

\* Decode has read the body from the network (line 111) and the request
\* runs on to the parse error or to the SETEX (lines 112-121).
ReadBody(p) ==
    /\ pc[p] = "decode"
    /\ LET a == AfterDecode(Decode(resp[p].Body))
       IN /\ pc' = [pc EXCEPT ![p] = a.pc]
          /\ weatherData' = [weatherData EXCEPT ![p] = a.weatherData]
          /\ response' = [response EXCEPT ![p] = a.response]
          /\ nSetEx' = [nSetEx EXCEPT ![p] = @ + IF a.pc = "setex" THEN 1 ELSE 0]
    /\ UNCHANGED << process, store, accepted, city, cacheKey, cachedData, err,
                    resp, setErr, logs, nGet, nHttp >>

\* RedisSetEx as a write that takes effect only where no unexpired entry is
\* stored: the first of two writes stays.
RedisSetExIfAbsent(p, failed, applied) ==
    /\ pc[p] = "setex"
    /\ failed \/ applied
    /\ cache' =
         IF applied /\ ~IsLive(cache[cacheKey[p]], now)
         THEN [cache EXCEPT ![cacheKey[p]] =
                 SetExEntry(Marshal(weatherData[p]), Expiration, now)]
         ELSE cache
    /\ LET e == IF failed THEN "error" ELSE "nil"
           a == AfterSetEx(e, weatherData[p])
       IN /\ setErr' = [setErr EXCEPT ![p] = e]
          /\ pc' = [pc EXCEPT ![p] = a.pc]
          /\ response' = [response EXCEPT ![p] = a.response]
          /\ logs' = [logs EXCEPT ![p] = logs[p] \o a.logs]
          /\ nSetEx' = [nSetEx EXCEPT ![p] = @ + IF a.pc = "setex" THEN 1 ELSE 0]
    /\ UNCHANGED << process, now, accepted, city, cacheKey, cachedData, err,
                    resp, weatherData, nGet, nHttp >>

\* The SETEX returns (line 121): applied without an error, or with an error
\* and either applied or not; the request then responds (lines 122-128).
RedisSetEx(p, failed, applied) ==
    /\ pc[p] = "setex"
    /\ failed \/ applied
    /\ cache' =
         IF applied
         THEN [cache EXCEPT ![cacheKey[p]] =
                 SetExEntry(Marshal(weatherData[p]), Expiration, now)]
         ELSE cache
    /\ LET e == IF failed THEN "error" ELSE "nil"
           a == AfterSetEx(e, weatherData[p])
       IN /\ setErr' = [setErr EXCEPT ![p] = e]
          /\ pc' = [pc EXCEPT ![p] = a.pc]
          /\ response' = [response EXCEPT ![p] = a.response]
          /\ logs' = [logs EXCEPT ![p] = logs[p] \o a.logs]
          /\ nSetEx' = [nSetEx EXCEPT ![p] = @ + IF a.pc = "setex" THEN 1 ELSE 0]
    /\ UNCHANGED << process, now, accepted, city, cacheKey, cachedData, err, resp,
                    weatherData, nGet, nHttp >>

\* Time passes, up to instant t.
Tick(t) ==
    /\ now < t
    /\ now' = t
    /\ UNCHANGED << process, cache, accepted, pc, city, cacheKey, cachedData, err, resp,
                    weatherData, setErr, response, logs, nGet, nHttp, nSetEx >>

Next ==
    \/ MainLoad
    \/ MainPing
    \/ MainListen
    \/ \E p \in Procs, c \in Cities : Request(p, c)
    \/ \E p \in Procs : RedisGet(p)
    \/ \E p \in Procs, r \in HttpResults : HttpGet(p, r)
    \/ \E p \in Procs : ReadBody(p)
    \/ \E p \in Procs, failed \in BOOLEAN, applied \in BOOLEAN :
         RedisSetEx(p, failed, applied)
    \/ \E t \in Times : Tick(t)

Spec == Init /\ [][Next]_vars

\* The commands of the store return: the client of lines 48-52 is made
\* with the timeouts of go-redis, so a GET or a SETEX that the store does not
\* answer returns an error.  Nothing is assumed of the upstream.
LiveSpec ==
    /\ Spec
    /\ \A p \in Procs : WF_vars(RedisGet(p))
    /\ \A p \in Procs :
         WF_vars(\E failed \in BOOLEAN, applied \in BOOLEAN :
                    RedisSetEx(p, failed, applied))

\* The upstream call and the read of its body return too; http.Get is
\* called on a client without a timeout, so this is an assumption.
FairSpec ==
    /\ LiveSpec
    /\ \A p \in Procs : WF_vars(\E r \in HttpResults : HttpGet(p, r))
    /\ \A p \in Procs : WF_vars(ReadBody(p))

\* The process started in any of the environments.
BootSpec == InitAnyEnv /\ [][Next]_vars

\* The process started on a store that holds a foreign entry.
ForeignSpec == InitForeignEntry /\ [][Next]_vars

(***************************************************************************)
(* Properties.  A request "leaves" a call in the step in which the call    *)
(* returns: pc[p] changes from the call's label.                           *)
(***************************************************************************)

GetReturns(p) == pc[p] = "get" /\ pc'[p] # "get"

HttpReturns(p) == pc[p] = "http" /\ pc'[p] # "http"

DecodeReturns(p) == pc[p] = "decode" /\ pc'[p] # "decode"

\* The step in which the answer of the upstream has been dealt with: http.Get
\* failed or returned a status other than 200, or the body has been read.
FetchEnds(p) ==
    \/ HttpReturns(p) /\ pc'[p] # "decode"
    \/ DecodeReturns(p)

SetExReturns(p) == pc[p] = "setex" /\ pc'[p] # "setex"

\* The entry the GET of request p finds unexpired under the request's key.
LiveEntry(p) == IsLive(cache[cacheKey[p]], now)

\* What a hit on the stored text is to answer: 200 and the decoded text.
ServedFromCache(p, text) ==
    /\ pc'[p] = "done"
    /\ response'[p] = Response(200, Unmarshal(text, Null).val)
    /\ nHttp'[p] = 0

\* C1 as stated: whenever a request's GET runs while an unexpired entry is
\* stored under the key of its city, the request answers 200 with the stored
\* payload and makes no upstream call.
C1_LiveEntryServed ==
    [][ \A p \in Procs :
          (GetReturns(p) /\ LiveEntry(p))
          => ServedFromCache(p, cache[cacheKey[p]].val) ]_vars

\* C1 amended: whenever a request's GET runs while an unexpired entry is
\* stored under its key and the GET returns without a store error, the
\* request answers 200 with the decoded stored text and makes no upstream
\* call, for every such request.
C1_LiveEntryServedWhenGetSucceeds ==
    [][ \A p \in Procs :
          (GetReturns(p) /\ LiveEntry(p) /\ err'[p] \notin StoreErrors)
          => ServedFromCache(p, cache[cacheKey[p]].val) ]_vars

\* A request answered from an entry that a request for another casing of the
\* city wrote.
C1_Witness ==
    \E p, q \in Procs :
        /\ p # q
        /\ pc[p] = "done" /\ pc[q] = "done"
        /\ nSetEx[q] = 1 /\ setErr[q] = "nil"
        /\ city[p] # city[q] /\ cacheKey[p] = cacheKey[q]
        /\ err[p] = "nil" /\ nHttp[p] = 0
        /\ cachedData[p] = << "{", "\"", "a", "\"", ":", "2", ",",
                              "\"", "b", "\"", ":", "1", "}" >>
        /\ response[p] = Response(200, weatherData[q])
        /\ weatherData[q].t = "obj"

\* What the store holds under the key of request p right after its write.
StoredByRequest(p) == cache'[CacheKey(city[p])]

\* The response of a request whose upstream call returned 200 and payload P.
AnsweredWithPayload(p) ==
    response'[p] = Response(200, Decode(resp[p].Body).val)

\* C2 as stated: a request that missed the cache and whose upstream answered
\* with a status in 200..299 and a body that is a JSON value P goes on to the
\* SETEX with P, and when the SETEX returns the response is 200 with P and
\* the store holds "weather:" + lowercase(city) -> serialized P, written now
\* with a time to live of 43200 seconds.
C2_MissPopulatesCache ==
    /\ [][ \A p \in Procs :
             ( /\ FetchEnds(p)
               /\ ~resp'[p].failed
               /\ resp'[p].StatusCode \in 200..299
               /\ ~Unmarshal(resp'[p].Body, Null).err )
             => /\ pc'[p] = "setex"
                /\ weatherData'[p] = Unmarshal(resp'[p].Body, Null).val ]_vars
    /\ [][ \A p \in Procs :
             SetExReturns(p)
             => /\ AnsweredWithPayload(p)
                /\ StoredByRequest(p) =
                     [ val |-> Marshal(Decode(resp[p].Body).val),
                       written |-> now, ttl |-> 43200 ] ]_vars

\* What the code does for status 200: the response is 200 with P whatever
\* the SETEX returns, and when the SETEX returns without an error the store
\* holds "weather:" + lowercase(city) -> serialized P, written now with a
\* time to live of 43200 seconds; for the body {"b":1, "a":2} the stored
\* text is {"a":2,"b":1}.
C2_MissPopulatesCacheWhenSetExSucceeds ==
    [][ \A p \in Procs :
          SetExReturns(p)
          => /\ AnsweredWithPayload(p)
             /\ setErr'[p] = "nil"
                => /\ StoredByRequest(p) =
                        [ val |-> Marshal(Decode(resp[p].Body).val),
                          written |-> now, ttl |-> 43200 ]
                   /\ resp[p].Body = BodyTwo
                        => StoredByRequest(p).val =
                             << "{", "\"", "a", "\"", ":", "2", ",",
                                "\"", "b", "\"", ":", "1", "}" >> ]_vars

\* C3: whenever a request's GET runs 43200 seconds or more after the last
\* write of the entry under its key, the GET does not return the entry and
\* the request makes an upstream call.
C3_ExpiredEntryRefetched ==
    [][ \A p \in Procs :
          ( /\ GetReturns(p)
            /\ cache[cacheKey[p]] # NoEntry
            /\ now >= cache[cacheKey[p]].written + 43200 )
          => /\ err'[p] # "nil"
             /\ pc'[p] = "http"
             /\ nHttp'[p] = 1
             /\ response'[p] = NoResponse ]_vars

\* Requests were served one after the other; the second found the entry of
\* the first expired, was told "not found" and is calling the upstream.
C3_Witness ==
    /\ pc[2] = "idle"
    /\ accepted = 2
    /\ pc[1] = "http"
    /\ err[1] = "redis.Nil"
    /\ nHttp[1] = 1
    /\ cache[cacheKey[1]] # NoEntry
    /\ now = cache[cacheKey[1]].written + 43200

\* C4: whenever the upstream answers a request with a status S outside
\* 200..299, the request ends with status S and the body
\* {"error": "Invalid city or API error"}, has issued no SETEX, and the step
\* leaves the store as it was.
C4_RejectedStatusPropagated ==
    [][ \A p \in Procs :
          ( /\ FetchEnds(p)
            /\ ~resp'[p].failed
            /\ resp'[p].StatusCode \notin 200..299 )
          => /\ pc'[p] = "done"
             /\ response'[p].status = resp'[p].StatusCode
             /\ response'[p].body = ErrorMap("Invalid city or API error")
             /\ nSetEx'[p] = 0
             /\ cache' = cache ]_vars

\* A request that the upstream answered with 404 ended with 404.
C4_Witness ==
    \E p \in Procs :
        /\ pc[p] = "done"
        /\ nHttp[p] = 1
        /\ ~resp[p].failed /\ resp[p].StatusCode = 404
        /\ response[p] = Response(404, ErrorMap("Invalid city or API error"))
        /\ nSetEx[p] = 0

\* The whole text is one JSON value.
ValidJSON(text) == ~Unmarshal(text, Null).err

\* C5 as stated: whenever the upstream answers with a status in 200..299 and
\* a body that is not valid JSON, the request ends with status 500 and the
\* message "Failed to parse weather data", and has issued no SETEX.
C5_MalformedBodyIsParseError ==
    [][ \A p \in Procs :
          ( /\ FetchEnds(p)
            /\ ~resp'[p].failed
            /\ resp'[p].StatusCode \in 200..299
            /\ ~ValidJSON(resp'[p].Body) )
          => /\ pc'[p] = "done"
             /\ response'[p] =
                  Response(500, ErrorMap("Failed to parse weather data"))
             /\ nSetEx'[p] = 0 ]_vars

\* C6: whenever the upstream cannot be reached, the request ends with status
\* 500 and the body {"error": "Failed to fetch weather data"}, has issued no
\* SETEX, and the step leaves the store as it was.
C6_UnreachableIsFetchError ==
    [][ \A p \in Procs :
          (FetchEnds(p) /\ resp'[p].failed)
          => /\ pc'[p] = "done"
             /\ response'[p] =
                  Response(500, ErrorMap("Failed to fetch weather data"))
             /\ nSetEx'[p] = 0
             /\ cache' = cache ]_vars

\* A request that missed the cache and could not reach the upstream ended
\* with the fetch error.
C6_Witness ==
    \E p \in Procs :
        /\ pc[p] = "done"
        /\ err[p] = "redis.Nil"
        /\ nHttp[p] = 1
        /\ resp[p].failed
        /\ response[p].status = 500
        /\ nSetEx[p] = 0

\* C7: a request whose upstream fetch succeeded and whose SETEX returned an
\* error ends with status 200 and the payload it fetched.
C7_WriteFailureNotSurfaced ==
    \A p \in Procs :
        (pc[p] = "done" /\ nSetEx[p] = 1 /\ setErr[p] # "nil")
        => response[p] = Response(200, Decode(resp[p].Body).val)

\* A request whose SETEX failed, leaving nothing in the store, ended with 200.
C7_Witness ==
    \E p \in Procs :
        /\ pc[p] = "done"
        /\ nSetEx[p] = 1
        /\ setErr[p] = "error"
        /\ cache[cacheKey[p]] = NoEntry
        /\ response[p].status = 200
        /\ response[p].body = weatherData[p]

\* C8: a request whose GET failed with a store error goes on to the upstream
\* call, and ends with the response of a request whose GET returned "not
\* found" and whose upstream call returned the same.
C8_StoreErrorIsMiss ==
    /\ \A p \in Procs :
         (pc[p] \in { "http", "decode", "setex", "done" }
          /\ err[p] \in StoreErrors)
         => nHttp[p] = 1
    /\ \A p, q \in Procs :
         ( /\ pc[p] = "done" /\ pc[q] = "done"
           /\ err[p] \in StoreErrors /\ err[q] = "redis.Nil"
           /\ resp[p] = resp[q] )
         => response[p] = response[q]

\* Two requests got the same payload from the upstream, one after a store
\* error and one after "not found", and both ended with it.
C8_Witness ==
    \E p, q \in Procs :
        /\ pc[p] = "done" /\ pc[q] = "done"
        /\ err[p] \in StoreErrors /\ err[q] = "redis.Nil"
        /\ resp[p] = resp[q]
        /\ resp[p] = HttpResponse(200, BodyTrailing)
        /\ response[p] = Response(200, Num(7))
        /\ response[q] = Response(200, Num(7))

\* The SETEX of request p has been issued and has not returned.
SetExPending(p) == pc[p] = "setex"

\* C9: a request whose upstream fetch succeeded eventually sends its
\* response, 200 with the payload, whether or not its write is ever applied:
\* the SETEX returns, applied or not, with or without an error, and the
\* response is sent in that step.
C9_ResponseWhetherOrNotWritten ==
    /\ \A p \in Procs :
         SetExPending(p)
         ~> (pc[p] = "done" /\ response[p] = Response(200, weatherData[p]))
    /\ [][ \A p \in Procs :
             SetExReturns(p)
             => /\ pc'[p] = "done"
                /\ response'[p] = Response(200, weatherData[p]) ]_vars

\* A request fetched the object of the body {"b":1, "a":2}; its SETEX was
\* never applied and returned an error, nothing is stored under its key, and
\* it has answered 200 with the object.
C9_Witness ==
    \E p \in Procs :
        /\ pc[p] = "done"
        /\ resp[p] = HttpResponse(200, BodyTwo)
        /\ nSetEx[p] = 1 /\ setErr[p] # "nil"
        /\ cache[cacheKey[p]] = NoEntry
        /\ response[p] = Response(200, Decode(BodyTwo).val)

(***************************************************************************)
(* strings.EqualFold over the characters of Cities: unicode.SimpleFold     *)
(* puts the three sigmas in one orbit.                                     *)
(***************************************************************************)

FoldRune(ch) ==
    CASE ch \in { "U+03A3", "U+03C3", "U+03C2" } -> "U+03C3"
      [] OTHER -> ch

EqualFold(a, b) ==
    /\ Len(a) = Len(b)
    /\ \A i \in 1..Len(a) : FoldRune(a[i]) = FoldRune(b[i])

\* C10 as stated: two requests whose cities are equal under case-insensitive
\* comparison derive the same cache key.
C10_FoldEqualCitiesShareKey ==
    \A p, q \in Procs :
        ( /\ pc[p] # "idle" /\ pc[q] # "idle"
          /\ EqualFold(city[p], city[q]) )
        => cacheKey[p] = cacheKey[q]

(***************************************************************************)
(* The path of a request through getWeather.                               *)
(***************************************************************************)

\* The steps of lines 80-129: START -> CACHE_LOOKUP -> RETURN or
\* UPSTREAM_FETCH (the call, then the read of the body) -> ERROR_RETURN or
\* CACHE_WRITE -> RETURN.
Path ==
    { << "idle", "get" >>, << "done", "get" >>,
      << "get", "done" >>, << "get", "http" >>,
      << "http", "done" >>, << "http", "decode" >>,
      << "decode", "done" >>, << "decode", "setex" >>,
      << "setex", "done" >> }

\* The upstream call of request p returned status 200 with a body that
\* decodes.
FetchSucceeded(p) ==
    /\ ~resp[p].failed
    /\ resp[p].StatusCode = StatusOK
    /\ ~Decode(resp[p].Body).err

\* The calls request p has issued so far fit one pass along the path.
OnePass(p) ==
    /\ nGet[p] = 1
    /\ nHttp[p] \in { 0, 1 }
    /\ nSetEx[p] \in { 0, 1 }
    /\ pc[p] = "get" => nHttp[p] = 0
    /\ pc[p] \in { "http", "decode" } => nHttp[p] = 1 /\ nSetEx[p] = 0
    /\ pc[p] = "setex" => nSetEx[p] = 1
    /\ nHttp[p] = 1 => err[p] # "nil"
    /\ nSetEx[p] = 1 => nHttp[p] = 1 /\ FetchSucceeded(p)

\* C11: every request follows START -> CACHE_LOOKUP -> { HIT -> RETURN,
\* MISS -> UPSTREAM_FETCH -> { SUCCESS -> CACHE_WRITE -> RETURN, FAILURE ->
\* ERROR_RETURN } }: it issues exactly one GET, at most one upstream call and
\* at most one SETEX, a SETEX only after its own upstream call succeeded, and
\* no step is taken twice.
C11_RequestPath ==
    /\ [](\A p \in Procs : pc[p] # "idle" => OnePass(p))
    /\ [][\A p \in Procs :
            pc'[p] # pc[p] =>
              /\ << pc[p], pc'[p] >> \in Path
              /\ GetReturns(p) =>
                    pc'[p] = (IF err'[p] = "nil" THEN "done" ELSE "http")
              /\ HttpReturns(p) =>
                    pc'[p] = (IF ~resp'[p].failed
                                 /\ resp'[p].StatusCode = StatusOK
                              THEN "decode" ELSE "done")
              /\ FetchEnds(p) =>
                    pc'[p] = (IF FetchSucceeded(p)' THEN "setex" ELSE "done")
         ]_vars

\* Two requests, one that went the whole path to the write and one answered
\* by the GET alone.
C11_Witness ==
    \E p \in Procs, q \in Procs :
        /\ pc[p] = "done" /\ nGet[p] = 1 /\ nHttp[p] = 1 /\ nSetEx[p] = 1
        /\ response[p].status = StatusOK
        /\ pc[q] = "done" /\ nGet[q] = 1 /\ nHttp[q] = 0 /\ nSetEx[q] = 0
        /\ response[q].status = StatusOK

(***************************************************************************)
(* What an error response reveals.                                         *)
(***************************************************************************)

\* The messages of lines 101, 106 and 113.
ErrorBodies ==
    { ErrorMap("Failed to fetch weather data"),
      ErrorMap("Invalid city or API error"),
      ErrorMap("Failed to parse weather data") }

\* Request p ended without a payload: it called the upstream and issued no
\* SETEX.
EndedInError(p) == pc[p] = "done" /\ nHttp[p] = 1 /\ nSetEx[p] = 0

\* The runs of p and q differ at most in the detail of a store error, in the
\* detail of a network error, and in the body of an upstream answer whose
\* status is not 200.
SameUpToDetail(p, q) ==
    /\ city[p] = city[q]
    /\ cachedData[p] = cachedData[q]
    /\ \/ err[p] = err[q]
       \/ err[p] \in StoreErrors /\ err[q] \in StoreErrors
    /\ resp[p].failed = resp[q].failed
    /\ resp[p].StatusCode = resp[q].StatusCode
    /\ resp[p].StatusCode = StatusOK => resp[p].Body = resp[q].Body

\* C12: the body of every error response is one of the three fixed
\* messages, and two requests whose runs differ only in the upstream's error
\* body or in the detail of a store or network error end with the same
\* response.
C12_ErrorsRevealNoDetail ==
    /\ \A p \in Procs : EndedInError(p) => response[p].body \in ErrorBodies
    /\ \A p \in Procs, q \in Procs :
         (EndedInError(p) /\ EndedInError(q) /\ SameUpToDetail(p, q))
         => response[p] = response[q]

\* Two requests were refused by the upstream with status 404 and different
\* bodies, each after a different store error, and ended with the same
\* response.
C12_Witness ==
    \E p \in Procs, q \in Procs :
        /\ EndedInError(p) /\ EndedInError(q) /\ SameUpToDetail(p, q)
        /\ err[p] = "connection refused" /\ err[q] = "i/o timeout"
        /\ resp[p] = HttpResponse(404, BodyTwo)
        /\ resp[q] = HttpResponse(404, BodyTruncated)
        /\ response[p] = Response(404, ErrorMap("Invalid city or API error"))
        /\ response[q] = response[p]

(***************************************************************************)
(* Startup.                                                                *)
(***************************************************************************)

\* Startup found the four values of Config set and the store answered the
\* PING.
Configured ==
    /\ env.file
    /\ env.WEATHER_API_KEY /\ env.REDIS_HOST /\ env.REDIS_PORT
    /\ env.REDIS_PASSWORD
    /\ env.ping

\* C13: the route is registered and a request is handled only if startup
\* found the API key, the cache host, port and credential present and the
\* store answered the connectivity check; otherwise the process has exited
\* before the route is registered and handles no request.
C13_ServesOnlyWhenConfigured ==
    /\ phase \in { "registered", "serving" } => Configured
    /\ (\E p \in Procs : pc[p] # "idle") => Configured

\* What main does check: the .env file and the PING.
C13_ServesOnlyWhenLoadedAndPinged ==
    /\ phase \in { "registered", "serving" } => env.file /\ env.ping
    /\ phase = "serving" => env.listen
    /\ (\E p \in Procs : pc[p] # "idle") => phase = "serving"

(***************************************************************************)
(* Concurrent misses of one key.                                           *)
(***************************************************************************)

\* The entry the SETEX of request p writes when it is applied now.
WrittenBy(p) == SetExEntry(Marshal(weatherData[p]), 12 * 60 * 60, now)

\* Requests p and q both missed the cache and both have an upstream call in
\* flight for one key, with nothing stored under it.
Stampede(p, q) ==
    /\ p # q
    /\ pc[p] = "http" /\ pc[q] = "http"
    /\ cacheKey[p] = cacheKey[q]
    /\ cache[cacheKey[p]] = NoEntry

\* Requests p and q have both fetched and both written one key without an
\* error.
BothWrote(p, q) ==
    /\ p # q
    /\ pc[p] = "done" /\ pc[q] = "done"
    /\ cacheKey[p] = cacheKey[q]
    /\ nSetEx[p] = 1 /\ setErr[p] = "nil"
    /\ nSetEx[q] = 1 /\ setErr[q] = "nil"

\* C14: concurrent misses of one key are not coordinated, and the store
\* changes only by whole writes: every change of the store is one request's
\* SETEX putting its own payload, serialized, with the 12-hour expiry counted
\* from that write, under its key alone; so once two requests have both
\* written a key, the entry is the payload and expiry of one of the two
\* writes, the one applied last, never a mixture.
C14_LastWriteWins ==
    /\ [][ cache' # cache =>
             \E p \in Procs :
                 /\ SetExReturns(p)
                 /\ cache' = [cache EXCEPT ![cacheKey[p]] = WrittenBy(p)] ]_vars
    /\ [][ \A p \in Procs :
             (SetExReturns(p) /\ setErr'[p] = "nil")
             => cache'[cacheKey[p]] = WrittenBy(p) ]_vars
    /\ [](\A p \in Procs, q \in Procs :
             BothWrote(p, q) =>
               \E w \in { p, q }, t \in Times :
                   cache[cacheKey[p]] =
                     SetExEntry(Marshal(weatherData[w]), 12 * 60 * 60, t))

\* Two requests for one key both found nothing at time 0, fetched different
\* payloads and both wrote; the entry is the second write's, whole.
C14_Witness ==
    \E p \in Procs, q \in Procs :
        /\ BothWrote(p, q)
        /\ now = 0
        /\ err[p] = "redis.Nil" /\ err[q] = "redis.Nil"
        /\ nHttp[p] = 1 /\ nHttp[q] = 1
        /\ weatherData[p] = Num(7)
        /\ weatherData[q] # Num(7)
        /\ cache[cacheKey[p]] = SetExEntry(Marshal(weatherData[q]), 43200, 0)

\* Two upstream calls in flight for one key while nothing is stored under it.
C14_StampedeReached == \E p \in Procs, q \in Procs : Stampede(p, q)

(***************************************************************************)
(* Stored texts that do not deserialize.                                   *)
(***************************************************************************)

\* Request p ended with status 200 and JSON null, without an upstream call.
ServedNull(p) ==
    /\ pc[p] = "done"
    /\ response[p] = Response(200, Null)
    /\ nHttp[p] = 0

\* Request p was served null from a stored text that does not deserialize.
HitCorrupt(p) ==
    /\ ServedNull(p)
    /\ err[p] = "nil"
    /\ ~ValidJSON(cachedData[p])

\* C15: a request whose GET finds a stored text that does not deserialize
\* ends with status 200 and JSON null, makes no upstream call and leaves the
\* entry as it is; and once a request has been served so, every request
\* for that key whose GET returns later is served the same until the entry
\* expires.
C15_CorruptEntryServedUntilExpiry ==
    [][ \A p \in Procs, q \in Procs :
          /\ (GetReturns(q) /\ err'[q] = "nil"
                /\ ~ValidJSON(cachedData'[q]))
             => (ServedNull(q)' /\ cache' = cache)
          /\ ( /\ p # q /\ HitCorrupt(p) /\ cacheKey[q] = cacheKey[p]
               /\ GetReturns(q)
               /\ now < 12 * 60 * 60 )
             => ServedNull(q)' ]_vars

\* C15 amended: a request whose GET returns, without a store error, a stored
\* text that does not deserialize ends with status 200 and JSON null, makes
\* no upstream call and leaves the store as it is; so does every request for
\* that key whose GET returns the entry, until it expires or is overwritten.
\* A request whose GET fails with a store error goes to the upstream, and
\* the entry is overwritten before its expiry only by the SETEX of such a
\* request: when that SETEX returns without an error the entry is the
\* request's payload, and otherwise it is the payload or the entry as it
\* was; no other key changes.
C15_CorruptEntryServedAsNull ==
    /\ [][ \A q \in Procs :
             /\ (GetReturns(q) /\ err'[q] = "nil"
                   /\ ~ValidJSON(cachedData'[q]))
                => (ServedNull(q)' /\ cache' = cache)
             /\ ( /\ GetReturns(q) /\ LiveEntry(q)
                  /\ ~ValidJSON(cache[cacheKey[q]].val) )
                => IF err'[q] \in StoreErrors
                   THEN pc'[q] = "http" /\ nHttp'[q] = 1 /\ cache' = cache
                   ELSE HitCorrupt(q)' /\ cache' = cache ]_vars
    /\ [][ \A k \in Keys :
             ( /\ IsLive(cache[k], now)
               /\ ~ValidJSON(cache[k].val)
               /\ cache'[k] # cache[k] )
             => \E p \in Procs :
                    /\ SetExReturns(p) /\ cacheKey[p] = k
                    /\ err[p] \in StoreErrors
                    /\ FetchSucceeded(p)
                    /\ cache'[k] =
                         SetExEntry(Marshal(weatherData[p]), 43200, now) ]_vars
    /\ [][ \A p \in Procs :
             SetExReturns(p) =>
               /\ setErr'[p] = "nil"
                  => cache'[cacheKey[p]] =
                       SetExEntry(Marshal(weatherData[p]), 43200, now)
               /\ cache'[cacheKey[p]] \in
                    { cache[cacheKey[p]],
                      SetExEntry(Marshal(weatherData[p]), 43200, now) }
               /\ \A k \in Keys \ { cacheKey[p] } : cache'[k] = cache[k]
         ]_vars

\* Two requests, for two casings of a city, were both served null from the
\* same truncated entry, which is still stored.
C15_Witness ==
    \E p \in Procs, q \in Procs :
        /\ p # q
        /\ city[p] # city[q]
        /\ HitCorrupt(p) /\ HitCorrupt(q)
        /\ cachedData[p] = BodyTruncated /\ cachedData[q] = BodyTruncated
        /\ cache \in ForeignStores

(***************************************************************************)
(* Termination.                                                            *)
(***************************************************************************)

InFlight(p) == pc[p] \in { "get", "http", "decode", "setex" }

\* RETURN: status 200 with a payload.
Returned(p) ==
    response[p].status = 200 /\ response[p].body \notin ErrorBodies

\* ERROR_RETURN: an error status, 4xx or 5xx, with an error body.
ErrorReturned(p) ==
    response[p].status \in 400..599 /\ response[p].body \in ErrorBodies

\* The error return as the code makes it: any status but 200 with an error
\* body.
EndedWithErrorBody(p) ==
    response[p].status # 200 /\ response[p].body \in ErrorBodies

\* A request sends nothing while it is in flight and sends one response, in
\* the step that ends it.
OneResponse ==
    /\ [](\A p \in Procs :
            /\ InFlight(p) => response[p] = NoResponse
            /\ pc[p] = "done" => response[p] # NoResponse)
    /\ [][ \A p \in Procs :
             response'[p] # response[p] =>
               \/ response[p] = NoResponse /\ InFlight(p) /\ pc'[p] = "done"
               \/ response'[p] = NoResponse /\ pc'[p] = "get" ]_vars

\* C16: when every GET, upstream call and SETEX returns, every request
\* eventually ends, in exactly one of RETURN (status 200 with a payload) and
\* ERROR_RETURN (an error status with an error body), and sends exactly one
\* response.
C16_EndsInReturnOrErrorReturn ==
    /\ \A p \in Procs : InFlight(p) ~> (pc[p] = "done")
    /\ [](\A p \in Procs :
            pc[p] = "done" => (Returned(p) /\ ~ErrorReturned(p))
                              \/ (ErrorReturned(p) /\ ~Returned(p)))
    /\ OneResponse

\* When every GET, upstream call and SETEX returns, every request eventually
\* ends and sends exactly one response: 200 with a payload, or an error body
\* with a status other than 200.
C16_EndsWithOneResponse ==
    /\ \A p \in Procs : InFlight(p) ~> (pc[p] = "done")
    /\ [](\A p \in Procs :
            pc[p] = "done" => (Returned(p) /\ ~EndedWithErrorBody(p))
                              \/ (EndedWithErrorBody(p) /\ ~Returned(p)))
    /\ OneResponse

(***************************************************************************)
(* The round trip through the store.                                       *)
(***************************************************************************)

\* Request q fetched a payload and wrote it.
Wrote(q) == pc[q] = "done" /\ nSetEx[q] = 1

\* Request p was answered by the GET alone, from the text request q wrote
\* under the same key.
HitOnWriteOf(p, q) ==
    /\ Wrote(q)
    /\ pc[p] = "done" /\ err[p] = "nil" /\ nHttp[p] = 0
    /\ cacheKey[p] = cacheKey[q]
    /\ cachedData[p] = Marshal(weatherData[q])

\* C17: deserializing the serialization of a payload the upstream returned
\* gives that payload back, so a request answered from the cache gets the
\* response that was sent to the request whose write made the entry.
C17_RoundTrip ==
    /\ \A q \in Procs :
         (pc[q] \in { "setex", "done" } /\ nSetEx[q] = 1)
         => Unmarshal(Marshal(weatherData[q]), Null) =
              [err |-> FALSE, val |-> weatherData[q]]
    /\ \A p \in Procs, q \in Procs :
         HitOnWriteOf(p, q) => response[p] = response[q]

\* A request was answered from the entry another request wrote for the body
\* {"b":1, "a":2}: stored with its keys sorted, and read back as the same
\* object.
C17_Witness ==
    \E p \in Procs, q \in Procs :
        /\ p # q
        /\ HitOnWriteOf(p, q)
        /\ resp[q].Body = BodyTwo
        /\ cachedData[p] # BodyTwo
        /\ response[p] = Response(200, Decode(BodyTwo).val)
        /\ response[q] = response[p]

(***************************************************************************)
(* Where the entries of the store come from.                               *)
(***************************************************************************)

\* The serializations of the payloads the upstream can return.
Serializations ==
    { Marshal(Decode(b).val) : b \in { x \in Bodies : ~Decode(x).err } }

\* Key k is "weather:" followed by the lower-casing of city c.
KeyOfLowered(k, c) ==
    k = << "w", "e", "a", "t", "h", "e", "r", ":" >> \o ToLower(c)

\* C18: the store starts empty and an entry comes to be stored under a key
\* "weather:k" only by the SETEX of a request for a city c with
\* lowercase(c) = k to which the upstream returned status 200 and a body
\* that decodes, and it is the serialization of that payload; so every entry
\* of every reachable state is such a serialization, with the 12-hour expiry.
C18_EntriesAreFetchedPayloads ==
    /\ \A k \in Keys : cache[k] = NoEntry
    /\ [](\A k \in Keys :
            cache[k] # NoEntry =>
              /\ cache[k].val \in Serializations
              /\ cache[k].ttl = 12 * 60 * 60
              /\ \E c \in Cities : KeyOfLowered(k, c))
    /\ [][ \A k \in Keys :
             cache'[k] # cache[k] =>
               \E p \in Procs :
                   /\ SetExPending(p)
                   /\ FetchSucceeded(p)
                   /\ KeyOfLowered(k, city[p])
                   /\ cache'[k].val = Marshal(Decode(resp[p].Body).val) ]_vars

\* A request for the capital sigma was answered, without an upstream call,
\* with the payload the upstream had returned for the small sigma.
C18_Witness ==
    \E p \in Procs, q \in Procs :
        /\ city[p] = << "U+03A3" >> /\ city[q] = << "U+03C3" >>
        /\ HitOnWriteOf(p, q)
        /\ FetchSucceeded(q)
        /\ cache[CacheKey(city[p])].val = Marshal(Decode(resp[q].Body).val)
        /\ response[p] = Response(200, Decode(resp[q].Body).val)

(***************************************************************************)
(* What a read leaves alone.                                               *)
(***************************************************************************)

\* C19: the return of a GET, a hit included, leaves every entry as it was,
\* value and expiry; an entry changes only by a SETEX, which counts its 12
\* hours from that write; a GET finds an entry exactly until 12 hours after
\* its last write; and no step removes an entry.
C19_ReadsLeaveStoreAlone ==
    /\ [][ \A p \in Procs : GetReturns(p) => cache' = cache ]_vars
    /\ [][ \A k \in Keys :
             cache'[k] # cache[k] =>
               /\ \E p \in Procs : SetExReturns(p) /\ cacheKey[p] = k
               /\ cache'[k].written = now
               /\ cache'[k].ttl = 43200 ]_vars
    /\ [][ \A p \in Procs :
             (GetReturns(p) /\ err'[p] \notin StoreErrors) =>
               LET e == cache[cacheKey[p]] IN
               (err'[p] = "nil") <=>
                 (e # NoEntry /\ now < e.written + 43200) ]_vars
    /\ [][ \A k \in Keys : cache[k] # NoEntry => cache'[k] # NoEntry ]_vars

\* An entry written at time 0 was read while it was unexpired, and at
\* 12 hours it is as written and expired.
C19_Witness ==
    \E p \in Procs :
        /\ pc[p] = "done" /\ err[p] = "nil" /\ nHttp[p] = 0
        /\ now = 43200
        /\ cache[cacheKey[p]] = SetExEntry(cachedData[p], 43200, 0)
        /\ ~IsLive(cache[cacheKey[p]], now)

====
